---- MODULE Spec2Model ----
(***************************************************************************)
(* A model of the physics knowledge base (physics_knowledge_db.py): the    *)
(* page chunker of read_paper, the ingestion loop crawl_physics_knowledge  *)
(* with its discovery call search_arxiv and the repository fetch           *)
(* fetch_github_context, and the retrieval call query_physics_db, over a   *)
(* ChromaDB collection keyed by chunk id and the in-process metadata       *)
(* cache.  Texts are sequences of one-character strings.                   *)
(***************************************************************************)
EXTENDS Integers, Sequences, FiniteSets, TLC

VARIABLES
    collection,      \* self.collection: chunk id -> [document, metadata]
    paper_metadata,  \* self._paper_metadata: paper id -> cached metadata
    pc,              \* "idle", or "crawl" while crawl_physics_knowledge loops
    papers,          \* crawl_physics_knowledge: the list search_arxiv returned
    idx,             \* crawl_physics_knowledge: 1-based position of the next paper
    total_chunks,    \* crawl_physics_knowledge: the running total
    ret,             \* what the last call returned, or that it raised
    tally,           \* history: what the current or last crawl met and stored
    last,            \* history: what the last loop iteration of the crawl did
    world,           \* the outside world when it is held constant (SpecTwice)
    runs,            \* history: the crawls finished so far, with the counts after each
    pdf,             \* chunker check: the downloaded document
    chunk_size,      \* chunker check: read_paper's chunk_size argument
    out              \* chunker check: whether read_paper returned, and its chunks

vars == <<collection, paper_metadata, pc, papers, idx, total_chunks, ret,
          tally, last, world, runs, pdf, chunk_size, out>>

crawlVars == <<collection, paper_metadata, pc, papers, idx, total_chunks, ret,
               tally, last, world, runs>>

chunkVars == <<pdf, chunk_size, out>>

None == "None"

Min(a, b) == IF a < b THEN a ELSE b

(***************************************************************************)
(* Python's string primitives, over sequences of characters.               *)
(***************************************************************************)
Whitespace == {" ", "\n"}

IsSpace(c) == c \in Whitespace

\* str.strip(): the text without its leading and trailing whitespace.
strip(text) ==
    LET keep == {i \in 1..Len(text) : ~IsSpace(text[i])}
    IN  IF keep = {} THEN <<>>
        ELSE LET lo == CHOOSE i \in keep : \A j \in keep : i <= j
                 hi == CHOOSE i \in keep : \A j \in keep : j <= i
             IN  SubSeq(text, lo, hi)

\* Python truthiness of a string: non-empty.
truthy(text) == Len(text) > 0

\* str.split() with no separator: the maximal runs of non-whitespace, in order.
split(text) ==
    LET n == Len(text)
        IsStart(i) == ~IsSpace(text[i]) /\ (i = 1 \/ IsSpace(text[i - 1]))
        IsEnd(i) == ~IsSpace(text[i]) /\ (i = n \/ IsSpace(text[i + 1]))
        positions == [i \in 1..n |-> i]
        starts == SelectSeq(positions, IsStart)
        ends == SelectSeq(positions, IsEnd)
    IN  [k \in 1..Len(starts) |-> SubSeq(text, starts[k], ends[k])]

\* " ".join(words): the words with one space between neighbours.
RECURSIVE join(_)
join(words) ==
    IF Len(words) = 0 THEN <<>>
    ELSE IF Len(words) = 1 THEN words[1]
    ELSE LET h == Len(words) \div 2
         IN  join(SubSeq(words, 1, h)) \o <<" ">> \o join(SubSeq(words, h + 1, Len(words)))

\* range that leaves out the last offset when step does not divide the span.
range_whole_steps(start, stop, step) ==
    IF stop <= start THEN <<>>
    ELSE [k \in 1..((stop - start) \div step) |-> start + (k - 1) * step]

\* range(start, stop, step) for step >= 1, as a sequence.
range(start, stop, step) ==
    IF stop <= start THEN <<>>
    ELSE [k \in 1..((stop - start + step - 1) \div step) |-> start + (k - 1) * step]

\* slice that starts one word early: words[max(i - 1, 0):i + size].
slice_overlapping(words, i, size) ==
    SubSeq(words, (IF i > 0 THEN i - 1 ELSE i) + 1, Min(i + size, Len(words)))

\* words[i:i + size] with a 0-based i: at most size words from position i.
slice(words, i, size) == SubSeq(words, i + 1, Min(i + size, Len(words)))

(***************************************************************************)
(* read_paper: the chunker.  A download is [status, pages, bad]: status is  *)
(* "ok" or the exception the download or fitz.open raised, pages the text   *)
(* of each page, bad the page whose get_text raises (0: none does).         *)
(***************************************************************************)
DEFAULT_CHUNK_SIZE == 500

\* The body of the page loop for one page: the chunks of that page.
page_chunks(text, page_num, size) ==
    IF ~truthy(strip(text)) THEN <<>>
    ELSE LET words == split(text)
             offsets == range(0, Len(words), size)
             texts == [k \in 1..Len(offsets) |-> join(slice(words, offsets[k], size))]
             kept == SelectSeq(texts, LAMBDA t : truthy(strip(t)))
         IN  [k \in 1..Len(kept) |-> [text |-> kept[k], page_number |-> page_num + 1]]

\* The page loop over pages page_num (0-based) .. last, appending to chunks.
RECURSIVE page_loop(_, _, _, _)
page_loop(pages, page_num, size, chunks) ==
    IF page_num >= Len(pages) THEN chunks
    ELSE page_loop(pages, page_num + 1, size,
                   chunks \o page_chunks(pages[page_num + 1], page_num, size))

read_paper(download, size) ==
    IF download.status # "ok" THEN <<>>
    ELSE IF download.bad = 0 THEN page_loop(download.pages, 0, size, <<>>)
    ELSE \* the exception leaves the loop; the handler returns what was appended
         page_loop(SubSeq(download.pages, 1, download.bad - 1), 0, size, <<>>)

(***************************************************************************)
(* The chunker on its own: every small download, every small chunk size.    *)
(***************************************************************************)
MaxChars == 5
MaxPages == 2
MaxChunkSize == 3

\* read_paper has not been called.
NotRead == [returned |-> FALSE, chunks |-> <<>>]

Alphabet == {"a", "b", " "}

Texts(n) == UNION {[1..k -> Alphabet] : k \in 0..n}

\* The documents of at most k pages holding at most n characters in all.
RECURSIVE Docs(_, _)
Docs(k, n) ==
    IF k = 0 THEN {<<>>}
    ELSE {<<>>} \cup UNION {{<<t>> \o d : d \in Docs(k - 1, n - Len(t))} : t \in Texts(n)}

Downloads ==
    {[status |-> "ok", pages |-> d, bad |-> b] :
        d \in Docs(MaxPages, MaxChars), b \in 0..MaxPages} \cup
    {[status |-> s, pages |-> <<>>, bad |-> 0] : s \in {"RequestException", "FileDataError"}}

ChunkInit ==
    /\ pdf \in {d \in Downloads : d.bad <= Len(d.pages)}
    /\ chunk_size \in 1..MaxChunkSize
    /\ out = NotRead

ReadPaper ==
    /\ ~out.returned
    /\ out' = [returned |-> TRUE, chunks |-> read_paper(pdf, chunk_size)]
    /\ UNCHANGED <<pdf, chunk_size>>

(***************************************************************************)
(* The outside world of a crawl: what arXiv lists, what each download      *)
(* gives, what raw.githubusercontent.com answers.                          *)
(***************************************************************************)
MaxPapers == 2

REPO == "https://github.com/u/r"

\* GITHUB_PATTERN.search(summary).group(0), or None: a summary is a sequence of
\* words, and the words the pattern matches are the repository URLs.
GITHUB_PATTERN_search(summary) ==
    LET hits == SelectSeq(summary, LAMBDA w : w \in {REPO})
    IN  IF Len(hits) = 0 THEN None ELSE hits[1]

\* The arxiv.Result objects the catalogue can list.
Catalog ==
    {[short_id |-> "p1", title |-> "T1", pdf_url |-> "pdf1",
      summary |-> <<"code", "at", REPO>>],
     [short_id |-> "p2", title |-> "T2", pdf_url |-> "pdf2",
      summary |-> <<"no", "code">>]}

\* What client.results yields: the papers found, each listed once, and whether
\* the call or the iteration then raises (after the last paper found).
Discoveries ==
    {[found |-> f, failed |-> x] :
        f \in {l \in UNION {[1..k -> Catalog] : k \in 0..MaxPapers} :
                  \A i, j \in 1..Len(l) : i < j => l[i].short_id # l[j].short_id},
        x \in BOOLEAN}

\* n words, each the character w except the last, which is e, one sep between.
Words(n, w, e, sep) ==
    [i \in 1..(2 * n - 1) |-> IF i % 2 = 0 THEN sep ELSE IF i = 2 * n - 1 THEN e ELSE w]

\* The downloads a PDF URL can give, by name.
DownloadOf ==
    [fail |-> [status |-> "RequestException", pages |-> <<>>, bad |-> 0],
     small |-> [status |-> "ok", pages |-> <<<<"a", " ", "b">>>>, bad |-> 0],
     big |-> [status |-> "ok",
              pages |-> <<<<"\n">>, <<"a", " ", "b">>, Words(501, "c", "d", " ")>>,
              bad |-> 0],
     torn |-> [status |-> "ok",
               pages |-> <<<<"\n">>, <<"a", " ", "b">>, Words(501, "c", "d", " ")>>,
               bad |-> 3]]

DownloadNames == DOMAIN DownloadOf

\* The downloads each PDF URL can give: the second paper is a one-page paper.
Serves == [pdf1 |-> {"fail", "small", "big", "torn"}, pdf2 |-> {"fail", "small"}]

\* read_paper(pdf_url) as the crawl calls it, for each download.
PaperChunks == [d \in DownloadNames |-> read_paper(DownloadOf[d], DEFAULT_CHUNK_SIZE)]

\* An HTTP answer: the request raises, or a status code with a body.
Raises == [raises |-> TRUE, status_code |-> 0, text |-> <<>>]
NotFound == [raises |-> FALSE, status_code |-> 404, text |-> <<>>]
Ok(text) == [raises |-> FALSE, status_code |-> 200, text |-> text]

README_300 == Words(300, "r", "s", "\n")
README_501 == Words(501, "r", "s", " ")
REQUIREMENTS == <<"n", "u", "m", "p", "y">>
REQUIREMENTS_501 == Words(501, "q", "t", "\n")

\* What the repository answers, by name: README.md per branch, requirements.txt.
GithubOf ==
    [down |-> [readme |-> [main |-> Raises, master |-> Raises],
               requirements |-> [main |-> Raises, master |-> Raises]],
     full |-> [readme |-> [main |-> Ok(README_300), master |-> NotFound],
               requirements |-> [main |-> Ok(REQUIREMENTS), master |-> Raises]],
     long |-> [readme |-> [main |-> Raises, master |-> Ok(README_501)],
               requirements |-> [main |-> NotFound, master |-> Ok(REQUIREMENTS_501)]]]

GithubNames == DOMAIN GithubOf

(***************************************************************************)
(* search_arxiv                                                            *)
(***************************************************************************)
\* The dictionary appended to results for one arxiv.Result.
search_result(paper) ==
    [title |-> paper.title, pdf_url |-> paper.pdf_url, summary |-> paper.summary,
     paper_id |-> paper.short_id, repo_url |-> GITHUB_PATTERN_search(paper.summary)]

\* The dictionary cached under the paper's short id.
cache_entry(paper) ==
    [title |-> paper.title, url |-> paper.pdf_url, summary |-> paper.summary,
     repo_url |-> GITHUB_PATTERN_search(paper.summary)]

\* The list search_arxiv returns: one dictionary per paper yielded, also when
\* the iteration raised afterwards (the handler only prints).
search_results(discovery) ==
    [i \in 1..Len(discovery.found) |-> search_result(discovery.found[i])]

\* search_cache with the cache assigned afresh: only this search's papers.
search_cache_afresh(cache, discovery) ==
    LET found == discovery.found
        ids == {found[i].short_id : i \in 1..Len(found)}
        lastOf(id) == CHOOSE i \in 1..Len(found) :
                          /\ found[i].short_id = id
                          /\ \A j \in 1..Len(found) : found[j].short_id = id => j <= i
    IN  [id \in ids |-> cache_entry(found[lastOf(id)])]

\* self._paper_metadata after the loop: each paper yielded is cached under its
\* id, a later one replacing an earlier one of the same id.
search_cache(cache, discovery) ==
    LET found == discovery.found
        ids == {found[i].short_id : i \in 1..Len(found)}
        lastOf(id) == CHOOSE i \in 1..Len(found) :
                          /\ found[i].short_id = id
                          /\ \A j \in 1..Len(found) : found[j].short_id = id => j <= i
    IN  [id \in DOMAIN cache \cup ids |->
            IF id \in ids THEN cache_entry(found[lastOf(id)]) ELSE cache[id]]

(***************************************************************************)
(* fetch_github_context                                                    *)
(***************************************************************************)
BRANCHES == <<"main", "master">>

\* The branch loop from position b: the first branch whose README.md answers
\* 200 gives the readme, and requirements.txt of that branch when it answers 200.
RECURSIVE branch_loop(_, _, _)
branch_loop(web, b, context) ==
    IF b > Len(BRANCHES) THEN context
    ELSE LET response == web.readme[BRANCHES[b]]
             req_response == web.requirements[BRANCHES[b]]
         IN  IF response.raises THEN branch_loop(web, b + 1, context)
             ELSE IF response.status_code = 200
                  THEN [readme |-> response.text,
                        requirements |-> IF ~req_response.raises /\ req_response.status_code = 200
                                         THEN req_response.text
                                         ELSE context.requirements]
                  ELSE branch_loop(web, b + 1, context)

fetch_github_context(repo_url, web) ==
    LET context == [readme |-> <<>>, requirements |-> <<>>]
    IN  IF repo_url = None THEN context ELSE branch_loop(web, 1, context)

(***************************************************************************)
(* crawl_physics_knowledge: the two batches of one paper                   *)
(***************************************************************************)
README_CHUNK_SIZE == 500

REQUIREMENTS_PREFIX == <<"D", "e", "p", "e", "n", "d", "e", "n", "c", "i", "e", "s", " ", "a", "n", "d", " ", "r", "e", "q", "u", "i", "r", "e", "m", "e", "n", "t", "s", ":", " ">>

\* paper_batch with the chunk ids numbered on from the size of the store.
paper_batch_numbered_on(paper, chunks) ==
    [ids |-> [k \in 1..Len(chunks) |->
                 paper.paper_id \o "_chunk_" \o
                 ToString(Cardinality(DOMAIN collection) + k - 1)],
     documents |-> [k \in 1..Len(chunks) |-> chunks[k].text],
     metadatas |-> [k \in 1..Len(chunks) |->
                      [source_id |-> paper.paper_id, title |-> paper.title,
                       page |-> chunks[k].page_number, url |-> paper.pdf_url,
                       type |-> "paper_content"]]]

\* paper_batch with the chunk ids counted from 1.
paper_batch_from_one(paper, chunks) ==
    [ids |-> [k \in 1..Len(chunks) |-> paper.paper_id \o "_chunk_" \o ToString(k)],
     documents |-> [k \in 1..Len(chunks) |-> chunks[k].text],
     metadatas |-> [k \in 1..Len(chunks) |->
                      [source_id |-> paper.paper_id, title |-> paper.title,
                       page |-> chunks[k].page_number, url |-> paper.pdf_url,
                       type |-> "paper_content"]]]

\* paper_batch with the url left empty.
paper_batch_without_url(paper, chunks) ==
    [ids |-> [k \in 1..Len(chunks) |-> paper.paper_id \o "_chunk_" \o ToString(k - 1)],
     documents |-> [k \in 1..Len(chunks) |-> chunks[k].text],
     metadatas |-> [k \in 1..Len(chunks) |->
                      [source_id |-> paper.paper_id, title |-> paper.title,
                       page |-> chunks[k].page_number, url |-> "",
                       type |-> "paper_content"]]]

\* ids, documents and metadatas of the paper's content chunks.
paper_batch(paper, chunks) ==
    [ids |-> [k \in 1..Len(chunks) |-> paper.paper_id \o "_chunk_" \o ToString(k - 1)],
     documents |-> [k \in 1..Len(chunks) |-> chunks[k].text],
     metadatas |-> [k \in 1..Len(chunks) |->
                      [source_id |-> paper.paper_id, title |-> paper.title,
                       page |-> chunks[k].page_number, url |-> paper.pdf_url,
                       type |-> "paper_content"]]]

\* readme_batch with each chunk numbered by the offset of its first word.
readme_batch_by_offset(paper, readme) ==
    IF ~truthy(readme) THEN [ids |-> <<>>, documents |-> <<>>, metadatas |-> <<>>]
    ELSE LET readme_words == split(readme)
             offsets == range(0, Len(readme_words), README_CHUNK_SIZE)
             texts == [k \in 1..Len(offsets) |->
                          join(slice(readme_words, offsets[k], README_CHUNK_SIZE))]
             keep == SelectSeq([k \in 1..Len(offsets) |-> k],
                               LAMBDA k : truthy(strip(texts[k])))
         IN  [ids |-> [j \in 1..Len(keep) |->
                          paper.paper_id \o "_github_readme_" \o
                          ToString(offsets[keep[j]])],
              documents |-> [j \in 1..Len(keep) |-> texts[keep[j]]],
              metadatas |-> [j \in 1..Len(keep) |->
                               [source_id |-> paper.paper_id,
                                title |-> paper.title \o " - GitHub README",
                                page |-> 0, url |-> paper.repo_url,
                                type |-> "implementation_details"]]]

\* The README part of the GitHub batch.
readme_batch(paper, readme) ==
    IF ~truthy(readme) THEN [ids |-> <<>>, documents |-> <<>>, metadatas |-> <<>>]
    ELSE LET readme_words == split(readme)
             offsets == range(0, Len(readme_words), README_CHUNK_SIZE)
             texts == [k \in 1..Len(offsets) |->
                          join(slice(readme_words, offsets[k], README_CHUNK_SIZE))]
             keep == SelectSeq([k \in 1..Len(offsets) |-> k],
                               LAMBDA k : truthy(strip(texts[k])))
         IN  [ids |-> [j \in 1..Len(keep) |->
                          paper.paper_id \o "_github_readme_" \o
                          ToString(offsets[keep[j]] \div README_CHUNK_SIZE)],
              documents |-> [j \in 1..Len(keep) |-> texts[keep[j]]],
              metadatas |-> [j \in 1..Len(keep) |->
                               [source_id |-> paper.paper_id,
                                title |-> paper.title \o " - GitHub README",
                                page |-> 0, url |-> paper.repo_url,
                                type |-> "implementation_details"]]]

\* The requirements.txt part of the GitHub batch.
requirements_batch(paper, requirements) ==
    IF ~truthy(requirements) THEN [ids |-> <<>>, documents |-> <<>>, metadatas |-> <<>>]
    ELSE [ids |-> <<paper.paper_id \o "_github_requirements">>,
          documents |-> <<REQUIREMENTS_PREFIX \o requirements>>,
          metadatas |-> <<[source_id |-> paper.paper_id,
                           title |-> paper.title \o " - Dependencies",
                           page |-> 0, url |-> paper.repo_url,
                           type |-> "implementation_details"]>>]

github_batch(paper, context) ==
    LET r == readme_batch(paper, context.readme)
        q == requirements_batch(paper, context.requirements)
    IN  [ids |-> r.ids \o q.ids, documents |-> r.documents \o q.documents,
         metadatas |-> r.metadatas \o q.metadatas]

\* embedding_model.encode(texts): one vector per text, in order.  The model
\* stands in for the sentence transformer with a one-dimensional vector, the
\* length of the text.
encode(texts) == [k \in 1..Len(texts) |-> <<Len(texts[k])>>]

\* upsert that first drops the entries of the sources it writes.
upsert_replacing(coll, ids, documents, embeddings, metadatas) ==
    LET at(id) == CHOOSE k \in 1..Len(ids) : ids[k] = id
        new == {ids[k] : k \in 1..Len(ids)}
        sources == {metadatas[k].source_id : k \in 1..Len(ids)}
        kept == {id \in DOMAIN coll : coll[id].metadata.source_id \notin sources}
    IN  [id \in kept \cup new |->
            IF id \in new
            THEN [document |-> documents[at(id)], embedding |-> embeddings[at(id)],
                  metadata |-> metadatas[at(id)]]
            ELSE coll[id]]

\* collection.upsert(ids, documents, embeddings, metadatas): each id now holds
\* its document, embedding and metadata.
upsert(coll, ids, documents, embeddings, metadatas) ==
    LET at(id) == CHOOSE k \in 1..Len(ids) : ids[k] = id
        new == {ids[k] : k \in 1..Len(ids)}
    IN  [id \in DOMAIN coll \cup new |->
            IF id \in new
            THEN [document |-> documents[at(id)], embedding |-> embeddings[at(id)],
                  metadata |-> metadatas[at(id)]]
            ELSE coll[id]]

\* collection.count()
count(coll) == Cardinality(DOMAIN coll)

(***************************************************************************)
(* The batches of every paper under every download and repository answer,  *)
(* computed once.                                                          *)
(***************************************************************************)
SearchResults == {search_result(c) : c \in Catalog}

PaperBatches ==
    [p \in SearchResults, d \in DownloadNames |-> paper_batch(p, PaperChunks[d])]

GithubBatches ==
    [p \in SearchResults, g \in GithubNames |->
        github_batch(p, fetch_github_context(p.repo_url, GithubOf[g]))]

(***************************************************************************)
(* State after construction, and the calls.                                *)
(***************************************************************************)
NoReturn == [op |-> None, raised |-> FALSE, value |-> 0]

NoTally == [yielded |-> 0, discovery_failed |-> FALSE, stored |-> 0]

NoLast == [paper_id |-> None, download |-> None, primary |-> None,
           fetched |-> None, github |-> None, github_docs |-> 0, query |-> None,
           question |-> <<>>, n_results |-> 0, asked |-> None, get |-> None]

Empty == [id \in {} |-> None]

CrawlInit ==
    /\ collection = Empty
    /\ paper_metadata = Empty
    /\ pc = "idle"
    /\ papers = <<>>
    /\ idx = 0
    /\ total_chunks = 0
    /\ ret = NoReturn
    /\ tally = NoTally
    /\ last = NoLast

IdleChunk ==
    /\ pdf = DownloadOf["fail"]
    /\ chunk_size = DEFAULT_CHUNK_SIZE
    /\ out = NotRead

\* The early return that hands back the size of the store.
no_papers_return_count(coll) == Cardinality(DOMAIN coll)

\* What crawl_physics_knowledge returns when search_arxiv lists nothing.
no_papers_return(coll) == 0

\* total_chunks set to the size of the batch instead of raised by it.
counted_afresh(total, documents) == Len(documents)

\* total_chunks += len(documents), after an upsert that did not raise.
counted(total, documents) == total + Len(documents)

\* The entries the iteration stored, from what it met: the sizes of its
\* batches whose upsert did not raise.
StoredBy(note) ==
    (IF note.primary = "stored" THEN Len(PaperChunks[note.download]) ELSE 0)
    + (IF note.github = "stored" THEN note.github_docs ELSE 0)

\* crawl_physics_knowledge up to the paper loop: search_arxiv, and the return
\* of 0 when it lists nothing.
Crawl(max_papers, discovery) ==
    /\ pc = "idle"
    /\ Len(discovery.found) <= max_papers
    /\ paper_metadata' = search_cache(paper_metadata, discovery)
    /\ tally' = [yielded |-> Len(discovery.found), discovery_failed |-> discovery.failed,
                 stored |-> 0]
    /\ last' = NoLast
    /\ LET results == search_results(discovery)
       IN  IF results = <<>>
           THEN /\ ret' = [op |-> "crawl", raised |-> FALSE,
                            value |-> no_papers_return(collection)]
                /\ UNCHANGED <<pc, papers, idx, total_chunks>>
           ELSE /\ pc' = "crawl"
                /\ papers' = results
                /\ idx' = 1
                /\ total_chunks' = 0
                /\ ret' = NoReturn
    /\ UNCHANGED collection

\* The loop leaves the paper: continue with the next one.
Continue(coll, total, note) ==
    /\ collection' = coll
    /\ total_chunks' = total
    /\ idx' = idx + 1
    /\ last' = note
    /\ tally' = [tally EXCEPT !.stored = @ + StoredBy(note)]
    /\ UNCHANGED <<paper_metadata, pc, papers, ret>>

\* encode raises: the exception leaves crawl_physics_knowledge.
Raise(coll, total, note) ==
    /\ collection' = coll
    /\ pc' = "idle"
    /\ ret' = [op |-> "crawl", raised |-> TRUE, value |-> 0]
    /\ last' = note
    /\ papers' = <<>>
    /\ idx' = 0
    /\ total_chunks' = 0
    /\ tally' = [tally EXCEPT !.stored = @ + StoredBy(note)]
    /\ UNCHANGED paper_metadata

\* One iteration of the paper loop, under the download d of the paper's PDF
\* and the answer g of its repository; whether encode and upsert raise is the
\* environment's choice.
ProcessPaper(d, g) ==
    /\ pc = "crawl"
    /\ idx <= Len(papers)
    /\ d \in Serves[papers[idx].pdf_url]
    /\ LET paper == papers[idx]
           chunks == PaperChunks[d]
           batch == PaperBatches[paper, d]
           note == [NoLast EXCEPT !.paper_id = paper.paper_id, !.download = d]
       IN  IF chunks = <<>>
           THEN Continue(collection, total_chunks, [note EXCEPT !.primary = "skipped"])
           ELSE \E embedded \in BOOLEAN, upserted \in BOOLEAN :
                IF ~embedded
                THEN /\ upserted
                     /\ Raise(collection, total_chunks,
                              [note EXCEPT !.primary = "embed_failed"])
                ELSE LET coll == IF upserted
                                 THEN upsert(collection, batch.ids, batch.documents,
                                             encode(batch.documents), batch.metadatas)
                                 ELSE collection
                         total == IF upserted
                                  THEN counted(total_chunks, batch.documents)
                                  ELSE total_chunks
                         noted == [note EXCEPT
                                      !.primary = IF upserted THEN "stored"
                                                  ELSE "upsert_failed"]
                     IN  IF paper.repo_url = None
                         THEN Continue(coll, total, noted)
                         ELSE LET github == GithubBatches[paper, g]
                                  fetched == [noted EXCEPT
                                                 !.fetched = g,
                                                 !.github_docs = Len(github.documents)]
                              IN  IF github.documents = <<>>
                                  THEN Continue(coll, total,
                                                [fetched EXCEPT !.github = "nothing"])
                                  ELSE \E gh_embedded \in BOOLEAN, gh_upserted \in BOOLEAN :
                                       IF ~gh_embedded
                                       THEN /\ gh_upserted
                                            /\ Raise(coll, total,
                                                     [fetched EXCEPT
                                                         !.github = "embed_failed"])
                                       ELSE IF gh_upserted
                                       THEN Continue(
                                                upsert(coll, github.ids, github.documents,
                                                       encode(github.documents),
                                                       github.metadatas),
                                                counted(total, github.documents),
                                                [fetched EXCEPT !.github = "stored"])
                                       ELSE Continue(coll, total,
                                                     [fetched EXCEPT
                                                         !.github = "upsert_failed"])

\* After the last paper: return total_chunks.
CrawlReturn ==
    /\ pc = "crawl"
    /\ idx > Len(papers)
    /\ pc' = "idle"
    /\ ret' = [op |-> "crawl", raised |-> FALSE, value |-> total_chunks]
    /\ papers' = <<>>
    /\ idx' = 0
    /\ total_chunks' = 0
    /\ last' = NoLast
    /\ UNCHANGED <<collection, paper_metadata, tally>>

MaxResults == 2

\* The questions asked, as texts.
Questions == {<<"a">>, <<"a", " ", "b", " ", "c">>}

\* Squared L2 distance of two vectors of the same dimension, ChromaDB's default.
distance(u, v) == (u[1] - v[1]) * (u[1] - v[1])

\* collection.query(query_embeddings, n_results): the rankings the store may
\* give, each the ids of the n_results nearest entries (all of them when the
\* store holds fewer), nearest first.
query(coll, query_embedding, n_results) ==
    LET n == Min(n_results, count(coll))
        far(id) == distance(query_embedding, coll[id].embedding)
    IN  {r \in [1..n -> DOMAIN coll] :
            /\ \A i, j \in 1..n : i < j => r[i] # r[j] /\ far(r[i]) <= far(r[j])
            /\ \A id \in DOMAIN coll :
                  (\A i \in 1..n : r[i] # id) => \A i \in 1..n : far(r[i]) <= far(id)}

\* What the store gives as the metadata of an entry stored without any: None
\* (ChromaDB keeps no empty dictionary).  The entries the crawl writes all have
\* a dictionary.
NoMetadata == <<>>

has_metadata(meta) == DOMAIN meta # {}

\* meta.get(key, default)
meta_get(meta, key, default) == IF key \in DOMAIN meta THEN meta[key] ELSE default

\* query_result with the title of a hit without one given as the empty string.
query_result_title_empty(doc, meta, dist) ==
    [text |-> doc,
     source_id |-> meta_get(meta, "source_id", "Unknown"),
     title |-> meta_get(meta, "title", ""),
     page |-> meta_get(meta, "page", 0),
     url |-> meta_get(meta, "url", ""),
     distance |-> dist]

\* The dictionary query_physics_db builds for one hit.
query_result(doc, meta, dist) ==
    [text |-> doc,
     source_id |-> meta_get(meta, "source_id", "Unknown"),
     title |-> meta_get(meta, "title", "Unknown"),
     page |-> meta_get(meta, "page", 0),
     url |-> meta_get(meta, "url", ""),
     distance |-> dist]

\* The hits the formatting loop gets through: all of them, or those before the
\* first hit whose metadata is None, on which meta.get raises.
formatted(coll, ranking) ==
    LET bad == {i \in 1..Len(ranking) : ~has_metadata(coll[ranking[i]].metadata)}
    IN  IF bad = {} THEN Len(ranking)
        ELSE (CHOOSE i \in bad : \A j \in bad : i <= j) - 1

\* query_physics_db with the hits taken last first.
query_physics_db_reversed(coll, question, embedded, queried, ranking) ==
    IF ~embedded \/ ~queried
    THEN [op |-> "query", raised |-> FALSE, value |-> <<>>]
    ELSE [op |-> "query", raised |-> FALSE,
          value |-> [i \in 1..formatted(coll, ranking) |->
                        LET id == ranking[Len(ranking) + 1 - i]
                        IN  query_result(coll[id].document, coll[id].metadata,
                                         distance(encode(<<question>>)[1],
                                                  coll[id].embedding))]]

\* query_physics_db without its handler: the exception leaves the call.
query_physics_db_unguarded(coll, question, embedded, queried, ranking) ==
    IF ~embedded \/ ~queried \/ formatted(coll, ranking) < Len(ranking)
    THEN [op |-> "query", raised |-> TRUE, value |-> <<>>]
    ELSE [op |-> "query", raised |-> FALSE,
          value |-> [i \in 1..Len(ranking) |->
                        query_result(coll[ranking[i]].document, coll[ranking[i]].metadata,
                                     distance(encode(<<question>>)[1],
                                              coll[ranking[i]].embedding))]]

\* query_physics_db, given whether encode and the store's query succeed and
\* the ranking the store gives: an exception, from either or from the
\* formatting loop, is caught, and the results built so far are returned.
query_physics_db(coll, question, embedded, queried, ranking) ==
    IF ~embedded \/ ~queried
    THEN [op |-> "query", raised |-> FALSE, value |-> <<>>]
    ELSE [op |-> "query", raised |-> FALSE,
          value |-> [i \in 1..formatted(coll, ranking) |->
                        query_result(coll[ranking[i]].document, coll[ranking[i]].metadata,
                                     distance(encode(<<question>>)[1],
                                              coll[ranking[i]].embedding))]]

Query(question, n_results) ==
    /\ pc = "idle"
    /\ \E embedded \in BOOLEAN, queried \in BOOLEAN :
          /\ ~embedded => queried
          /\ \E r \in IF embedded /\ queried
                       THEN query(collection, encode(<<question>>)[1], n_results)
                       ELSE {<<>>} :
                ret' = query_physics_db(collection, question, embedded, queried, r)
          /\ last' = [NoLast EXCEPT !.query = IF ~embedded THEN "embed_failed"
                                              ELSE IF ~queried THEN "query_failed"
                                              ELSE "answered",
                                     !.question = question,
                                     !.n_results = n_results]
    /\ tally' = NoTally
    /\ UNCHANGED <<collection, paper_metadata, pc, papers, idx, total_chunks>>

Init == CrawlInit /\ IdleChunk /\ world = None /\ runs = <<>>

Next ==
    \/ \E m \in 1..MaxPapers, d \in Discoveries :
          Crawl(m, d) /\ UNCHANGED <<world, runs, chunkVars>>
    \/ \E d \in DownloadNames, g \in GithubNames :
          ProcessPaper(d, g) /\ UNCHANGED <<world, runs, chunkVars>>
    \/ CrawlReturn /\ UNCHANGED <<world, runs, chunkVars>>
    \/ \E q \in Questions, n \in 1..MaxResults :
          Query(q, n) /\ UNCHANGED <<world, runs, chunkVars>>

Spec == Init /\ [][Next]_vars

ChunkNext == ReadPaper /\ UNCHANGED crawlVars

InitChunk == ChunkInit /\ CrawlInit /\ world = None /\ runs = <<>>

SpecChunk == InitChunk /\ [][ChunkNext]_vars

(***************************************************************************)
(* Repeated crawls of one topic in a world held constant: the discovery,   *)
(* each PDF's download and the repository's answer are fixed at the start; *)
(* only whether encode and upsert raise varies from call to call.          *)
(***************************************************************************)
MaxRuns == 2

PdfUrls == {c.pdf_url : c \in Catalog}

PaperIds == {c.short_id : c \in Catalog}

Worlds ==
    {w \in [discovery : Discoveries, download : [PdfUrls -> DownloadNames],
            github : GithubNames] :
        \A u \in PdfUrls : w.download[u] \in Serves[u]}

\* The entries of the store whose metadata names the source.
entries_of(coll, source_id) == {id \in DOMAIN coll : coll[id].metadata.source_id = source_id}

\* The record of a crawl: whether it has ended, what failed in it, and the
\* store's counts when it ended.
Started == [done |-> FALSE, upsert_failed |-> FALSE, embed_failed |-> FALSE,
            total |-> 0, by_source |-> [s \in PaperIds |-> 0]]

\* The record of the crawl in progress after one more step of it.
Recorded(run) ==
    [done |-> pc' = "idle",
     upsert_failed |-> run.upsert_failed \/ last'.primary = "upsert_failed"
                                         \/ last'.github = "upsert_failed",
     embed_failed |-> run.embed_failed \/ last'.primary = "embed_failed"
                                       \/ last'.github = "embed_failed",
     total |-> IF pc' = "idle" THEN count(collection') ELSE 0,
     by_source |-> [s \in PaperIds |->
                      IF pc' = "idle" THEN Cardinality(entries_of(collection', s)) ELSE 0]]

InitWorld == CrawlInit /\ IdleChunk /\ world \in Worlds /\ runs = <<>>

NextWorld ==
    \/ /\ Len(runs) < MaxRuns
       /\ Crawl(MaxPapers, world.discovery)
       /\ runs' = Append(runs, Recorded(Started))
       /\ UNCHANGED <<world, chunkVars>>
    \/ /\ ProcessPaper(world.download[papers[idx].pdf_url], world.github)
       /\ runs' = [runs EXCEPT ![Len(runs)] = Recorded(@)]
       /\ UNCHANGED <<world, chunkVars>>
    \/ /\ CrawlReturn
       /\ runs' = [runs EXCEPT ![Len(runs)] = Recorded(@)]
       /\ UNCHANGED <<world, chunkVars>>

SpecWorld == InitWorld /\ [][NextWorld]_vars

(***************************************************************************)
(* Idempotent ingestion                                                    *)
(***************************************************************************)
\* The store's counts after run j equal those after run i.
SameCounts(i, j) ==
    /\ runs[j].total = runs[i].total
    /\ runs[j].by_source = runs[i].by_source

PagesRead(download) ==
    IF download.status # "ok" THEN 0
    ELSE IF download.bad = 0 THEN Len(download.pages) ELSE download.bad - 1

\* The chunks tagged with the page number, in the order emitted.
ChunksOfPage(chunks, number) == SelectSeq(chunks, LAMBDA c : c.page_number = number)

\* The words of the chunks' texts, chunk after chunk.
RECURSIVE WordsOf(_)
WordsOf(chunks) ==
    IF Len(chunks) = 0 THEN <<>> ELSE split(chunks[1].text) \o WordsOf(Tail(chunks))

RECURSIVE WordCount(_)
WordCount(chunks) ==
    IF Len(chunks) = 0 THEN 0 ELSE Len(split(chunks[1].text)) + WordCount(Tail(chunks))

\* C2: for every page and every chunk size >= 1, the words of the page's chunks,
\* in order, are exactly the whitespace-split words of the page, so the word
\* counts of the chunks add up to the page's word count.
C2_TokenConservation ==
    out.returned =>
        \A n \in 1..PagesRead(pdf) :
            /\ WordsOf(ChunksOfPage(out.chunks, n)) = split(pdf.pages[n])
            /\ WordCount(ChunksOfPage(out.chunks, n)) = Len(split(pdf.pages[n]))

\* A page of three words cut into more than one chunk, after another page.
C2_Witness ==
    /\ out.returned
    /\ PagesRead(pdf) = 2
    /\ Len(split(pdf.pages[2])) = 3
    /\ Len(ChunksOfPage(out.chunks, 2)) >= 2

Ceil(n, m) == (n + m - 1) \div m

\* The word counts of the chunks, in order.
Sizes(chunks) == [k \in 1..Len(chunks) |-> Len(split(chunks[k].text))]

\* Scenario A: 1200 words under chunk size 500 give chunks of 500, 500 and 200
\* words, all tagged with the page's number.
ScenarioA ==
    LET chunks == page_chunks(Words(1200, "w", "w", " "), 6, DEFAULT_CHUNK_SIZE)
    IN  /\ Sizes(chunks) = <<500, 500, 200>>
        /\ \A k \in 1..3 : chunks[k].page_number = 7

\* C3: a page of n words under chunk size m gives ceil(n / m) chunks, each of m
\* words but the last, which has 1..m; each carries the page's 1-based number;
\* an empty or whitespace-only page gives none; scenario A.
C3_ChunkShape ==
    /\ ScenarioA
    /\ out.returned =>
          /\ \A k \in 1..Len(out.chunks) : out.chunks[k].page_number \in 1..PagesRead(pdf)
          /\ \A n \in 1..PagesRead(pdf) :
                LET words == Len(split(pdf.pages[n]))
                    sizes == Sizes(ChunksOfPage(out.chunks, n))
                IN  /\ Len(sizes) = Ceil(words, chunk_size)
                    /\ \A k \in 1..(Len(sizes) - 1) : sizes[k] = chunk_size
                    /\ Len(sizes) > 0 => sizes[Len(sizes)] \in 1..chunk_size
                    /\ (\A i \in 1..Len(pdf.pages[n]) : IsSpace(pdf.pages[n][i]))
                          => Len(sizes) = 0

\* A page of three words under chunk size 2 (chunks of 2 and 1 words), behind
\* an empty page that gave no chunk.
C3_Witness ==
    /\ out.returned
    /\ chunk_size = 2
    /\ PagesRead(pdf) = 2
    /\ ChunksOfPage(out.chunks, 1) = <<>>
    /\ Sizes(ChunksOfPage(out.chunks, 2)) = <<2, 1>>

(***************************************************************************)
(* Chunk ids                                                               *)
(***************************************************************************)
\* Every download's chunks come page after page and, within a page, window
\* after window: the page numbers never fall, and the words of a page's chunks
\* are the page's words in order.
ChunksInReadingOrder ==
    \A d \in DownloadNames :
        LET chunks == PaperChunks[d]
        IN  /\ \A i, j \in 1..Len(chunks) :
                  i < j => chunks[i].page_number <= chunks[j].page_number
            /\ \A n \in 1..PagesRead(DownloadOf[d]) :
                  WordsOf(ChunksOfPage(chunks, n)) = split(DownloadOf[d].pages[n])

\* C4: after a paper's content batch is stored, the store holds under
\* "{source_id}_chunk_{i}", for i = 0..n-1, the i-th chunk of the document in
\* page-then-window order, whatever the store held before; so a second crawl
\* over the same extractor output writes the same ids with the same texts.
C4_ChunkIdDeterminism ==
    /\ ChunksInReadingOrder
    /\ last.primary = "stored" =>
          LET chunks == PaperChunks[last.download]
              ids == {last.paper_id \o "_chunk_" \o ToString(i) : i \in 0..(Len(chunks) - 1)}
          IN  /\ Cardinality(ids) = Len(chunks)
              /\ \A i \in 0..(Len(chunks) - 1) :
                    LET id == last.paper_id \o "_chunk_" \o ToString(i)
                    IN  /\ id \in DOMAIN collection
                        /\ collection[id].document = chunks[i + 1].text
                        /\ collection[id].metadata.page = chunks[i + 1].page_number
                        /\ collection[id].metadata.source_id = last.paper_id
                        /\ collection[id].metadata.type = "paper_content"

\* The three chunks of the three-page download are stored, the first of them
\* from page 2, next to the two README entries of the paper's repository.
C4_Witness ==
    /\ last.primary = "stored"
    /\ last.download = "big"
    /\ last.paper_id = "p1"
    /\ "p1_chunk_2" \in DOMAIN collection
    /\ collection["p1_chunk_0"].metadata.page = 2
    /\ "p1_github_readme_1" \in DOMAIN collection

(***************************************************************************)
(* The value crawl_physics_knowledge returns                               *)
(***************************************************************************)
HasRepo(c) == GITHUB_PATTERN_search(c.summary) # None

\* C5: the value returned is the sum over the papers, in discovery order, of
\* the content chunks stored and the GitHub entries stored; a paper without a
\* repository has no GitHub entry; and when discovery lists two papers, one
\* of them with a repository whose README has 300 words and whose
\* requirements.txt is there, every extraction gives chunks and nothing
\* fails, the value is chunks(doc1) + 1 + 1 + chunks(doc2).
C5_ReturnedTotal ==
    /\ (pc = "idle" /\ ret.op = "crawl" /\ ~ret.raised) => ret.value = tally.stored
    /\ \A c \in Catalog :
          ~HasRepo(c) =>
              /\ \A id \in entries_of(collection, c.short_id) :
                    collection[id].metadata.type = "paper_content"
              /\ last.paper_id = c.short_id => last.github_docs = 0 /\ last.github = None
    /\ (/\ pc = "idle" /\ ret.op = "crawl" /\ ~ret.raised
        /\ Len(world.discovery.found) = 2
        /\ Cardinality({i \in 1..2 : HasRepo(world.discovery.found[i])}) = 1
        /\ GithubOf[world.github].readme["main"].text = README_300
        /\ \A u \in PdfUrls : PaperChunks[world.download[u]] # <<>>
        /\ ~runs[Len(runs)].upsert_failed)
       => ret.value = Len(PaperChunks[world.download["pdf1"]]) + 1 + 1
                      + Len(PaperChunks[world.download["pdf2"]])

\* Scenario B with a first paper of three chunks and a second of one: 6.
C5_Witness ==
    /\ pc = "idle" /\ ret.op = "crawl" /\ ~ret.raised
    /\ Len(world.discovery.found) = 2
    /\ HasRepo(world.discovery.found[1])
    /\ ~HasRepo(world.discovery.found[2])
    /\ world.github = "full"
    /\ world.download["pdf1"] = "big"
    /\ world.download["pdf2"] = "small"
    /\ ~runs[Len(runs)].upsert_failed
    /\ ret.value = 6

(***************************************************************************)
(* Failures inside the paper loop                                          *)
(***************************************************************************)
\* The extraction of the download failed (the download, fitz.open or a page
\* raised) or gave no chunk.
ExtractionFailed(d) ==
    \/ DownloadOf[d].status # "ok"
    \/ DownloadOf[d].bad # 0
    \/ PaperChunks[d] = <<>>

\* C6: when the extraction of a paper fails or gives no chunks, the iteration
\* writes nothing to the store, adds nothing to the total and goes on to the
\* next paper (the iterations in which encode raises are set aside).
C6_ExtractionFailureIsolation ==
    [][(/\ pc = "crawl"
        /\ last'.paper_id # None
        /\ ExtractionFailed(last'.download)
        /\ last'.primary # "embed_failed"
        /\ last'.github # "embed_failed")
       => /\ collection' = collection
          /\ total_chunks' = total_chunks
          /\ pc' = "crawl"
          /\ idx' = idx + 1]_vars

\* C7: when encode raises on a batch, crawl_physics_knowledge does not raise
\* and goes on with the next paper.
C7_EmbeddingFailureIsolation ==
    (last.primary = "embed_failed" \/ last.github = "embed_failed")
    => (~ret.raised /\ pc = "crawl")

\* C8: when an upsert raises, the call does not raise, the batch is not
\* counted, and the crawl goes on: the paper's GitHub batch and the later
\* papers are still attempted.
C8_StoreWriteFailureIsolation ==
    [][(pc = "crawl" /\ (last'.primary = "upsert_failed" \/ last'.github = "upsert_failed"))
       => /\ ~ret'.raised
          /\ pc' = "crawl"
          /\ idx' = idx + 1
          /\ total_chunks' = total_chunks + StoredBy(last')
          /\ papers[idx].repo_url # None => last'.fetched # None]_vars

(***************************************************************************)
(* Discovery that fails or lists nothing                                   *)
(***************************************************************************)
\* C9 as stated: in a crawl whose discovery raised, at any point, or listed
\* nothing, the store is never written, and the call returns 0 without raising.
C9_Original ==
    [][((pc' = "crawl" \/ ret'.op = "crawl")
        /\ (tally'.discovery_failed \/ tally'.yielded = 0))
       => /\ collection' = collection
          /\ pc' = "idle" => (~ret'.raised /\ ret'.value = 0)]_vars

\* C9 amended: when discovery lists nothing, because it raised before the
\* first paper or because nothing matched, the call returns 0 without raising
\* and leaves the store as it was.
C9_DiscoveryListsNothing ==
    [][((pc' = "crawl" \/ ret'.op = "crawl") /\ tally'.yielded = 0)
       => /\ collection' = collection
          /\ pc' = "idle"
          /\ ~ret'.raised
          /\ ret'.value = 0]_vars

\* A crawl over a store that holds entries, whose discovery raised at once.
C9_Witness ==
    /\ pc = "idle"
    /\ ret.op = "crawl"
    /\ tally.yielded = 0
    /\ tally.discovery_failed
    /\ count(collection) > 0

(***************************************************************************)
(* query_physics_db                                                        *)
(***************************************************************************)
\* C10: query_physics_db never raises; it returns the empty list on an empty
\* store, and when encode or the store's query raises.
C10_QueryNeverRaises ==
    ret.op = "query" =>
        /\ ~ret.raised
        /\ collection = Empty => ret.value = <<>>
        /\ last.query \in {"embed_failed", "query_failed"} => ret.value = <<>>

\* The store's query raised on a store that holds entries.
C10_Witness ==
    /\ ret.op = "query"
    /\ last.query = "query_failed"
    /\ count(collection) > 0
    /\ ret.value = <<>>

\* C11: an answered query gives at most n_results results, one per hit of the
\* store (as many as the store has, up to n_results), each with the text and
\* the distance of an entry of the store, nearest first: of two results with
\* different distances the one with the smaller distance comes first.
C11_ScoreMonotonicity ==
    (ret.op = "query" /\ last.query = "answered") =>
        LET v == ret.value
            e == encode(<<last.question>>)[1]
        IN  /\ Len(v) <= last.n_results
            /\ Len(v) = Min(last.n_results, count(collection))
            /\ \A i, j \in 1..Len(v) : v[i].distance < v[j].distance => i < j
            /\ \A i \in 1..Len(v) :
                  \E id \in DOMAIN collection :
                      /\ collection[id].document = v[i].text
                      /\ v[i].distance = distance(e, collection[id].embedding)
            /\ \A id \in DOMAIN collection :
                  (\A i \in 1..Len(v) : collection[id].document # v[i].text)
                  => \A i \in 1..Len(v) :
                        v[i].distance <= distance(e, collection[id].embedding)

\* Two results at different distances, from a store that holds more entries
\* than were asked for.
C11_Witness ==
    /\ ret.op = "query"
    /\ last.query = "answered"
    /\ last.n_results = 2
    /\ count(collection) > 2
    /\ Len(ret.value) = 2
    /\ ret.value[1].distance < ret.value[2].distance

(***************************************************************************)
(* get_reference, get_collection_stats, and a new process on the same      *)
(* database directory.                                                     *)
(***************************************************************************)
\* What get_reference returns when it finds nothing: None.
NoReference == [found |-> FALSE]

Reference(title, url) == [found |-> TRUE, title |-> title, url |-> url]

\* The entries a where={"source_id": paper_id} filter selects.
where_source_id(coll, paper_id) ==
    {id \in DOMAIN coll : /\ "source_id" \in DOMAIN coll[id].metadata
                          /\ coll[id].metadata.source_id = paper_id}

\* collection.get(where={"source_id": paper_id}, limit=1, include=["metadatas"]):
\* the answers the store may give, each the metadatas of one selected entry
\* (the store does not say which), or none.
get(coll, paper_id) ==
    IF where_source_id(coll, paper_id) = {} THEN {<<>>}
    ELSE {<<coll[id].metadata>> : id \in where_source_id(coll, paper_id)}

\* get_reference without its handler: a failing store lookup leaves the call.
get_reference_unguarded(cache, paper_id, got, metadatas) ==
    IF paper_id \in DOMAIN cache
    THEN [op |-> "reference", raised |-> FALSE,
          value |-> Reference(cache[paper_id].title, cache[paper_id].url)]
    ELSE IF ~got THEN [op |-> "reference", raised |-> TRUE, value |-> NoReference]
    ELSE IF Len(metadatas) = 0
    THEN [op |-> "reference", raised |-> FALSE, value |-> NoReference]
    ELSE [op |-> "reference", raised |-> FALSE,
          value |-> Reference(meta_get(metadatas[1], "title", "Unknown"),
                              meta_get(metadatas[1], "url", ""))]

\* get_reference, given whether the store's get succeeds and what it answers:
\* the cached title and url if the id is cached; else those of the entry the
\* store gives; else, and when the lookup raises, None.
get_reference(cache, paper_id, got, metadatas) ==
    IF paper_id \in DOMAIN cache
    THEN [op |-> "reference", raised |-> FALSE,
          value |-> Reference(cache[paper_id].title, cache[paper_id].url)]
    ELSE IF ~got \/ Len(metadatas) = 0
    THEN [op |-> "reference", raised |-> FALSE, value |-> NoReference]
    ELSE [op |-> "reference", raised |-> FALSE,
          value |-> Reference(meta_get(metadatas[1], "title", "Unknown"),
                              meta_get(metadatas[1], "url", ""))]

GetReference(paper_id) ==
    /\ pc = "idle"
    /\ \E got \in BOOLEAN :
          /\ \E m \in IF got THEN get(collection, paper_id) ELSE {<<>>} :
                ret' = get_reference(paper_metadata, paper_id, got, m)
          /\ last' = [NoLast EXCEPT !.asked = paper_id,
                                     !.get = IF got THEN "answered" ELSE "failed"]
    /\ tally' = NoTally
    /\ UNCHANGED <<collection, paper_metadata, pc, papers, idx, total_chunks>>

\* get_collection_stats, given whether collection.count() is reached
\* without an exception.
get_collection_stats(coll, reached) ==
    IF reached
    THEN [op |-> "stats", raised |-> FALSE, value |-> [total_chunks |-> count(coll), error |-> FALSE]]
    ELSE [op |-> "stats", raised |-> FALSE, value |-> [total_chunks |-> 0, error |-> TRUE]]

GetCollectionStats ==
    /\ pc = "idle"
    /\ \E reached \in BOOLEAN : ret' = get_collection_stats(collection, reached)
    /\ last' = NoLast
    /\ tally' = NoTally
    /\ UNCHANGED <<collection, paper_metadata, pc, papers, idx, total_chunks>>

\* The process ends and a new one is constructed on the same database
\* directory: the collection is the one on disk, the cache is empty.
Restart ==
    /\ pc = "idle"
    /\ paper_metadata' = Empty
    /\ ret' = NoReturn
    /\ last' = NoLast
    /\ tally' = NoTally
    /\ UNCHANGED <<collection, pc, papers, idx, total_chunks>>

\* The ids references are asked for: the papers' and one no paper has.
ReferenceIds == PaperIds \cup {"unknown-id"}

\* All the calls, in any order, and restarts.
NextService ==
    \/ \E m \in 1..MaxPapers, d \in Discoveries :
          Crawl(m, d) /\ UNCHANGED <<world, runs, chunkVars>>
    \/ \E d \in DownloadNames, g \in GithubNames :
          ProcessPaper(d, g) /\ UNCHANGED <<world, runs, chunkVars>>
    \/ CrawlReturn /\ UNCHANGED <<world, runs, chunkVars>>
    \/ \E q \in Questions, n \in 1..MaxResults :
          Query(q, n) /\ UNCHANGED <<world, runs, chunkVars>>
    \/ \E id \in ReferenceIds :
          GetReference(id) /\ UNCHANGED <<world, runs, chunkVars>>
    \/ GetCollectionStats /\ UNCHANGED <<world, runs, chunkVars>>
    \/ Restart /\ UNCHANGED <<world, runs, chunkVars>>

SpecService == Init /\ [][NextService]_vars

(***************************************************************************)
(* A store found on disk: the collection of a database directory that      *)
(* another writer filled, some of whose entries lack metadata fields.      *)
(***************************************************************************)
\* The entries such a store may hold.
LegacyEntries ==
    [n1 |-> [document |-> <<"x">>, embedding |-> <<1>>,
             metadata |-> [source_id |-> "p9", title |-> "T9", page |-> 4,
                           url |-> "pdf9", type |-> "paper_content"]],
     n2 |-> [document |-> <<"x", "y">>, embedding |-> <<2>>,
             metadata |-> [source_id |-> "p9"]],
     n3 |-> [document |-> <<"x", "y", "z">>, embedding |-> <<3>>,
             metadata |-> [title |-> "T8", page |-> 2]],
     n4 |-> [document |-> <<"x", "y", "z", "w">>, embedding |-> <<4>>,
             metadata |-> NoMetadata]]

\* The collection get_or_create_collection opens: any of the entries.
PersistedStores ==
    {[id \in ids |-> LegacyEntries[id]] : ids \in SUBSET DOMAIN LegacyEntries}

InitPersisted ==
    /\ collection \in PersistedStores
    /\ paper_metadata = Empty
    /\ pc = "idle"
    /\ papers = <<>>
    /\ idx = 0
    /\ total_chunks = 0
    /\ ret = NoReturn
    /\ tally = NoTally
    /\ last = NoLast
    /\ IdleChunk /\ world = None /\ runs = <<>>

NextPersisted ==
    \/ \E q \in Questions, n \in 1..MaxResults :
          Query(q, n) /\ UNCHANGED <<world, runs, chunkVars>>

SpecPersisted == InitPersisted /\ [][NextPersisted]_vars

\* The entry of the store that holds the text (the texts of a store found on
\* disk differ from one another).
EntryOf(text) == CHOOSE id \in DOMAIN collection : collection[id].document = text

PaperOf(id) == CHOOSE c \in Catalog : c.short_id = id

\* C13: get_reference answers a cached id with the cached title and url,
\* whatever the store would say; and an id that is not cached but is the
\* source_id of some entry of the store, with the paper's title and PDF URL.
C13_TwoTierResolution ==
    ret.op = "reference" =>
        /\ last.asked \in DOMAIN paper_metadata =>
              ret.value = Reference(paper_metadata[last.asked].title,
                                    paper_metadata[last.asked].url)
        /\ (/\ last.asked \notin DOMAIN paper_metadata
            /\ where_source_id(collection, last.asked) # {}
            /\ last.get = "answered")
           => ret.value = Reference(PaperOf(last.asked).title, PaperOf(last.asked).pdf_url)

\* C14: for every source_id both cached and in the store, every entry of the
\* store with that source_id carries the cached title and url.
C14_CacheStoreAgreement ==
    \A id \in DOMAIN paper_metadata :
        \A e \in where_source_id(collection, id) :
            /\ collection[e].metadata.title = paper_metadata[id].title
            /\ collection[e].metadata.url = paper_metadata[id].url

\* C16: get_reference never raises; it returns None for an id that is neither
\* cached nor the source_id of an entry of the store, and for an uncached id
\* when the store's get raises; it returns a reference only for an id that is
\* cached or in the store.
C16_AbsenceNotError ==
    ret.op = "reference" =>
        /\ ~ret.raised
        /\ (/\ last.asked \notin DOMAIN paper_metadata
            /\ where_source_id(collection, last.asked) = {})
           => ret.value = NoReference
        /\ (last.asked \notin DOMAIN paper_metadata /\ last.get = "failed")
           => ret.value = NoReference
        /\ ret.value.found =>
              \/ last.asked \in DOMAIN paper_metadata
              \/ where_source_id(collection, last.asked) # {}

\* Scenario C: an id no paper has, asked of a store that holds entries and a
\* cache that holds papers, with the store's get raising.
C16_Witness ==
    /\ ret.op = "reference"
    /\ last.asked = "unknown-id"
    /\ last.get = "failed"
    /\ count(collection) > 0
    /\ DOMAIN paper_metadata # {}
    /\ ret.value = NoReference

(***************************************************************************)
(* The ids of the GitHub entries                                           *)
(***************************************************************************)
\* The words of the text in windows of at most 500, each joined by spaces.
RECURSIVE Windows(_)
Windows(words) ==
    IF Len(words) = 0 THEN <<>>
    ELSE <<join(SubSeq(words, 1, Min(500, Len(words))))>>
         \o Windows(SubSeq(words, Min(500, Len(words)) + 1, Len(words)))

\* What fetch_github_context gives for each answer of the repository, and the
\* windows of each artifact.
GithubContext == [g \in GithubNames |-> fetch_github_context(REPO, GithubOf[g])]

ReadmeWindows == [g \in GithubNames |-> Windows(split(GithubContext[g].readme))]

RequirementsWindows == [g \in GithubNames |-> Windows(split(GithubContext[g].requirements))]

\* The store holds the windows as the entries prefix_0, prefix_1, ... of the
\* paper's implementation details.
HoldsWindows(prefix, windows) ==
    \A k \in 0..(Len(windows) - 1) :
        LET id == prefix \o ToString(k)
        IN  /\ id \in DOMAIN collection
            /\ collection[id].document = windows[k + 1]
            /\ collection[id].metadata.source_id = last.paper_id
            /\ collection[id].metadata.type = "implementation_details"

\* C15 as stated: once a paper's GitHub batch is stored, the README and the
\* requirements file are each held in windows of at most 500 words, the k-th
\* window of an artifact under "{source_id}_github_{artifact}_{k}".
C15_Original ==
    last.github = "stored" =>
        /\ HoldsWindows(last.paper_id \o "_github_readme_", ReadmeWindows[last.fetched])
        /\ HoldsWindows(last.paper_id \o "_github_requirements_",
                        RequirementsWindows[last.fetched])

\* C15 amended: the README is held in windows of at most 500 words, the k-th
\* under "{source_id}_github_readme_{k}"; the requirements file is held whole,
\* whatever its length, after the words "Dependencies and requirements: ",
\* as the one entry "{source_id}_github_requirements"; the batch has no other
\* entry.
C15_GithubIdentifiers ==
    last.github = "stored" =>
        LET requirements == GithubContext[last.fetched].requirements
            id == last.paper_id \o "_github_requirements"
        IN  /\ HoldsWindows(last.paper_id \o "_github_readme_", ReadmeWindows[last.fetched])
            /\ truthy(requirements) =>
                  /\ id \in DOMAIN collection
                  /\ collection[id].document = REQUIREMENTS_PREFIX \o requirements
                  /\ collection[id].metadata.source_id = last.paper_id
                  /\ collection[id].metadata.type = "implementation_details"
            /\ last.github_docs = Len(ReadmeWindows[last.fetched])
                                  + (IF truthy(requirements) THEN 1 ELSE 0)

\* A README of two windows and a requirements file of more than 500 words.
C15_Witness ==
    /\ last.github = "stored"
    /\ last.fetched = "long"
    /\ Len(ReadmeWindows["long"]) = 2
    /\ Len(RequirementsWindows["long"]) = 2
    /\ "p1_github_readme_1" \in DOMAIN collection
    /\ Len(collection["p1_github_requirements"].document) > 1000

(***************************************************************************)
(* Provenance                                                              *)
(***************************************************************************)
\* C17: after any crawls, whichever upserts failed, every source_id that
\* occurs in the store has an entry with a non-empty title and a non-empty url.
C17_StoreProvenance ==
    \A id \in DOMAIN collection :
        \E e \in where_source_id(collection, collection[id].metadata.source_id) :
            /\ collection[e].metadata.title # ""
            /\ collection[e].metadata.url # ""

\* One source held only by its GitHub entries (the upsert of its paper chunks
\* failed), another only by its paper chunks.
C17_Witness ==
    /\ where_source_id(collection, "p1") # {}
    /\ \A e \in where_source_id(collection, "p1") :
          collection[e].metadata.type = "implementation_details"
    /\ where_source_id(collection, "p2") # {}

(***************************************************************************)
(* What the calls leave alone                                              *)
(***************************************************************************)
\* C18: within one process, an id once cached stays cached; only the search
\* of a crawl changes the cache; query_physics_db, get_reference,
\* get_collection_stats and the paper loop leave it as it is.
C18_CacheOnlyGrows ==
    [][\/ Restart
       \/ /\ DOMAIN paper_metadata \subseteq DOMAIN paper_metadata'
          /\ ret'.op \in {"query", "reference", "stats"} => paper_metadata' = paper_metadata
          /\ pc = "crawl" => paper_metadata' = paper_metadata
          /\ paper_metadata' # paper_metadata => (pc = "idle" /\ tally'.yielded > 0)]_vars

\* A crawl that found one paper, in a process whose cache holds two.
C18_Witness ==
    /\ pc = "crawl"
    /\ tally.yielded = 1
    /\ DOMAIN paper_metadata = {"p1", "p2"}

\* The ids an iteration over the paper can write: those of the chunks of its
\* download and those of its GitHub batch.
Written(paper_id, download, fetched) ==
    {paper_id \o "_chunk_" \o ToString(i) : i \in 0..(Len(PaperChunks[download]) - 1)}
    \cup {paper_id \o "_github_readme_" \o ToString(k) :
              k \in 0..(Len(ReadmeWindows[fetched]) - 1)}
    \cup {paper_id \o "_github_requirements"}

\* C19: no step removes an entry of the store; query_physics_db,
\* get_reference and get_collection_stats leave the store as it is; and an
\* iteration of the paper loop changes only the ids it writes, so that the
\* entries an earlier, longer extraction of the same paper left at higher
\* indices stay, with their text.
C19_StoreNeverShrinks ==
    [][/\ DOMAIN collection \subseteq DOMAIN collection'
       /\ ret'.op \in {"query", "reference", "stats"} => collection' = collection
       /\ \A id \in DOMAIN collection :
             collection'[id] # collection[id] =>
                 /\ pc = "crawl"
                 /\ last'.fetched = None =>
                       id \in Written(last'.paper_id, last'.download, "down")
                 /\ last'.fetched # None =>
                       id \in Written(last'.paper_id, last'.download, last'.fetched)]_vars

\* The one chunk of a paper has just been stored over the first of the three
\* chunks an earlier crawl stored; the third is still there, with its text.
C19_Witness ==
    /\ last.primary = "stored"
    /\ last.paper_id = "p1"
    /\ last.download = "small"
    /\ "p1_chunk_2" \in DOMAIN collection
    /\ collection["p1_chunk_2"].document = PaperChunks["big"][3].text
    /\ collection["p1_chunk_0"].metadata.page = 1

(***************************************************************************)
(* The number reported as new chunks                                       *)
(***************************************************************************)
\* count() when the latest crawl began: what the crawl before it left, or
\* nothing.
CountBefore == IF Len(runs) > 1 THEN runs[Len(runs) - 1].total ELSE 0

\* C20: the value a crawl returns, which add_knowledge_topic reports as "New
\* chunks added", is the increase of count() from the start of the crawl to
\* its end, whatever the store held before (stated for crawls in which, as in
\* those before them, no encode and no upsert raised).
C20_ReturnIsCountIncrease ==
    (/\ pc = "idle" /\ ret.op = "crawl" /\ ~ret.raised /\ Len(runs) >= 1
     /\ \A i \in 1..Len(runs) : ~runs[i].embed_failed /\ ~runs[i].upsert_failed)
    => ret.value = count(collection) - CountBefore

====
